---- MODULE Spec2Model ----
(***************************************************************************)
(* Model of scheduler/python/is_live.py: the probe that prints "is live"   *)
(* when a calendar has an in-progress event and "is off" otherwise.        *)
(*                                                                         *)
(* Two entry points are modelled: a run of main() (argument parsing,       *)
(* calendar resolution, the paginated fetch/evaluate loop of               *)
(* check_is_live, the final print) and a direct call of event_is_now on    *)
(* one event.  The calendar service, the configuration file and the        *)
(* credential provider are the environment: what they answer is chosen     *)
(* when the program asks.                                                  *)
(*                                                                         *)
(* Representation.  A Python dict is a function whose DOMAIN is the set of *)
(* keys present.  A timestamp string is a pair <<wall, off>> (wall-clock   *)
(* reading and UTC offset, in minutes); an aware datetime is a record      *)
(* [wall, utcoffset].  Python's None is the string None below.             *)
(***************************************************************************)
EXTENDS Integers, Sequences, FiniteSets, TLC

\* ---------------------------------------------------------------- bounds
\* instants (UTC minutes) 0..MaxTime are the instants inputs are drawn from
MaxTime == 2
\* the service answers at most MaxPages list requests of one run
MaxPages == 2
\* the calendar holds at most MaxEvents events over all pages of one run
MaxEvents == 3

\* ------------------------------------------------------ program constants
DefaultLookback == 720
LeadMinutes == 1
MaxResults == 50

\* ------------------------------------------------------- Python basics
None == "<None>"
EmptyDict == <<>>

\* d.get(k, default)
Get(d, k, default) == IF k \in DOMAIN d THEN d[k] ELSE default

\* truth value of an Optional[str]
Truthy(s) == s # None /\ s # ""

\* truth value of d.get(k) where the value, if present, is a non-empty string
\* or a dict
HasTruthy(d, k) == k \in DOMAIN d /\ DOMAIN d[k] # {}

Times == 0..MaxTime
\* UTC-5, UTC and UTC+2, in minutes
Offsets == {-300, 0, 120}

\* the timestamp strings that denote an instant of Times in an offset of Offsets
DateTimeStrings == {<<t + o, o>> : t \in Times, o \in Offsets}
DateStrings == {<<"2024-01-01">>}

\* the "start"/"end" objects of an event: {}, {date}, {dateTime}, {date, dateTime}
Boundaries ==
    {EmptyDict}
    \cup {[date |-> d] : d \in DateStrings}
    \cup {[dateTime |-> s] : s \in DateTimeStrings}
    \cup {[date |-> d, dateTime |-> s] : d \in DateStrings, s \in DateTimeStrings}

\* events: dicts with any of the keys "start" and "end"
Events ==
    {EmptyDict}
    \cup {[start |-> b] : b \in Boundaries}
    \cup {[end |-> b] : b \in Boundaries}
    \cup {[start |-> b, end |-> c] : b \in Boundaries, c \in Boundaries}

\* the values `now` takes in a direct call of event_is_now
Nows == {[wall |-> t + o, utcoffset |-> o] : t \in Times, o \in Offsets}

\* the events the calendar service serves in a run of main(): one timed event
\* over [1, 2) written in UTC+2 and UTC-5, an all-day event, an event whose start
\* carries a date next to a timestamp, and an event without an end
PageEvents ==
    { [start |-> [dateTime |-> <<121, 120>>], end |-> [dateTime |-> <<-298, -300>>]],
      [start |-> [date |-> <<"2024-01-01">>], end |-> [date |-> <<"2024-01-01">>]],
      [start |-> [date |-> <<"2024-01-01">>, dateTime |-> <<1, 0>>],
       end |-> [dateTime |-> <<2, 0>>]],
      [start |-> [dateTime |-> <<0, 0>>]] }

SeqsUpTo(S, n) == UNION {[1..k -> S] : k \in 0..n}

\* ------------------------------------------------------------ date/time
\* parse_rfc3339: the aware datetime a timestamp string denotes
parse_rfc3339(dt_str) == [wall |-> dt_str[1], utcoffset |-> dt_str[2]]

\* variant: the offset is overwritten instead of converted (replace(tzinfo=utc))
astimezone_utc_replace(dt) == [wall |-> dt.wall, utcoffset |-> 0]

\* datetime.astimezone(timezone.utc)
astimezone_utc(dt) == [wall |-> dt.wall - dt.utcoffset, utcoffset |-> 0]

\* datetime.isoformat()
isoformat(dt) == <<dt.wall, dt.utcoffset>>

\* dt + timedelta(minutes=m)
plus_minutes(dt, m) == [wall |-> dt.wall + m, utcoffset |-> dt.utcoffset]

\* a <= b on aware datetimes: by instant
dt_le(a, b) == a.wall - a.utcoffset <= b.wall - b.utcoffset
\* variant: the end of the interval is included (<= instead of <)
dt_lt_closed(a, b) == a.wall - a.utcoffset <= b.wall - b.utcoffset
dt_lt(a, b) == a.wall - a.utcoffset < b.wall - b.utcoffset

\* ---------------------------------------------------------- event_is_now
\* variant: only the start is tested for an all-day date
event_is_now_start_only(e, n) ==
    LET start == Get(e, "start", EmptyDict)
        end == Get(e, "end", EmptyDict)
    IN  IF HasTruthy(start, "date")
        THEN FALSE
        ELSE IF ~HasTruthy(start, "dateTime") \/ ~HasTruthy(end, "dateTime")
        THEN FALSE
        ELSE LET start_dt == astimezone_utc(parse_rfc3339(start["dateTime"]))
                 end_dt == astimezone_utc(parse_rfc3339(end["dateTime"]))
                 now_utc == astimezone_utc(n)
             IN  dt_le(start_dt, now_utc) /\ dt_lt(now_utc, end_dt)

event_is_now(e, n) ==
    LET start == Get(e, "start", EmptyDict)
        end == Get(e, "end", EmptyDict)
    IN  IF HasTruthy(start, "date") \/ HasTruthy(end, "date")
        THEN FALSE
        ELSE IF ~HasTruthy(start, "dateTime") \/ ~HasTruthy(end, "dateTime")
        THEN FALSE
        ELSE LET start_dt == astimezone_utc(parse_rfc3339(start["dateTime"]))
                 end_dt == astimezone_utc(parse_rfc3339(end["dateTime"]))
                 now_utc == astimezone_utc(n)
             IN  dt_le(start_dt, now_utc) /\ dt_lt(now_utc, end_dt)

\* --------------------------------------------------- resolve_calendar_id
\* argparse's choices for --sheet
SheetChoices == {"A", "B", "C", "D"}
SheetInputs == {None, "A", "Z"}
CalendarIdInputs == {None, "", "cal123"}
LookbackInputs == {DefaultLookback}

\* what open()/json.load() find at config_path
ConfigJsons ==
    { EmptyDict,
      [sheets |-> EmptyDict],
      [sheets |-> [A |-> [calendarId |-> "calA"]]],
      [sheets |-> [A |-> [calendarId |-> ""]]],
      [sheets |-> [A |-> EmptyDict]],
      [sheets |-> [B |-> [calendarId |-> "calB"]]] }
ConfigFiles ==
    {[readable |-> FALSE]} \cup {[readable |-> TRUE, json |-> j] : j \in ConfigJsons}

\* load_config: the parsed file, or an exception
load_config(file) ==
    IF file.readable THEN [raised |-> FALSE, value |-> file.json]
    ELSE [raised |-> TRUE]

\* variant: the record's calendarId is returned without testing it
resolve_calendar_id_unchecked(sheet, calendar_id_a, file) ==
    IF Truthy(calendar_id_a)
    THEN [ok |-> TRUE, value |-> calendar_id_a, read |-> FALSE, err |-> ""]
    ELSE IF ~Truthy(sheet)
    THEN [ok |-> FALSE, value |-> None, read |-> FALSE, err |-> "usage"]
    ELSE LET loaded == load_config(file)
         IN  IF loaded.raised
             THEN [ok |-> FALSE, value |-> None, read |-> TRUE, err |-> "config"]
             ELSE LET sheets == Get(loaded.value, "sheets", EmptyDict)
                      has_cfg == sheet \in DOMAIN sheets /\ DOMAIN sheets[sheet] # {}
                  IN  IF ~has_cfg
                      THEN [ok |-> FALSE, value |-> None, read |-> TRUE, err |-> "notfound"]
                      ELSE [ok |-> TRUE, value |-> Get(sheets[sheet], "calendarId", ""),
                            read |-> TRUE, err |-> ""]

\* variant: the key is looked up first, the explicit identifier is the fallback
resolve_calendar_id_key_first(sheet, calendar_id_a, file) ==
    IF ~Truthy(sheet)
    THEN IF Truthy(calendar_id_a)
         THEN [ok |-> TRUE, value |-> calendar_id_a, read |-> FALSE, err |-> ""]
         ELSE [ok |-> FALSE, value |-> None, read |-> FALSE, err |-> "usage"]
    ELSE LET loaded == load_config(file)
         IN  IF loaded.raised
             THEN [ok |-> FALSE, value |-> None, read |-> TRUE, err |-> "config"]
             ELSE LET sheets == Get(loaded.value, "sheets", EmptyDict)
                      has_cfg == sheet \in DOMAIN sheets /\ DOMAIN sheets[sheet] # {}
                  IN  IF ~has_cfg \/ ~Truthy(Get(sheets[sheet], "calendarId", None))
                      THEN IF Truthy(calendar_id_a)
                           THEN [ok |-> TRUE, value |-> calendar_id_a, read |-> TRUE, err |-> ""]
                           ELSE [ok |-> FALSE, value |-> None, read |-> TRUE, err |-> "notfound"]
                      ELSE [ok |-> TRUE, value |-> sheets[sheet]["calendarId"],
                            read |-> TRUE, err |-> ""]

\* the outcome of resolve_calendar_id: the identifier returned or the error
\* raised, and whether the config file was read
resolve_calendar_id(sheet, calendar_id_a, file) ==
    IF Truthy(calendar_id_a)
    THEN [ok |-> TRUE, value |-> calendar_id_a, read |-> FALSE, err |-> ""]
    ELSE IF ~Truthy(sheet)
    THEN [ok |-> FALSE, value |-> None, read |-> FALSE, err |-> "usage"]
    ELSE LET loaded == load_config(file)
         IN  IF loaded.raised
             THEN [ok |-> FALSE, value |-> None, read |-> TRUE, err |-> "config"]
             ELSE LET sheets == Get(loaded.value, "sheets", EmptyDict)
                      has_cfg == sheet \in DOMAIN sheets /\ DOMAIN sheets[sheet] # {}
                  IN  IF ~has_cfg \/ ~Truthy(Get(sheets[sheet], "calendarId", None))
                      THEN [ok |-> FALSE, value |-> None, read |-> TRUE, err |-> "notfound"]
                      ELSE [ok |-> TRUE, value |-> sheets[sheet]["calendarId"],
                            read |-> TRUE, err |-> ""]

\* ------------------------------------------------------------------ state
VARIABLES
    pc,              \* position of the program
    sheet_key,       \* args.sheet
    calendar_id_arg, \* args.calendar_id
    lookback_minutes,\* args.lookback_minutes
    config_reads,    \* the config files load_config was called on, in order
    calendar_id,     \* main's calendar_id
    cred_lookups,    \* number of get_credentials calls
    now,             \* check_is_live's now (event_is_now's, in a direct call)
    time_min,        \* check_is_live's time_min
    time_max,        \* check_is_live's time_max
    page_token,      \* check_is_live's page_token
    resp,            \* check_is_live's resp
    idx,             \* number of items of resp the for loop has passed
    ev,              \* the event last handed to event_is_now
    ev_now,          \* what event_is_now returned for ev
    requests,        \* the list requests executed, in order
    responses,       \* the responses the service gave, in order
    evaluated,       \* the events handed to event_is_now, in order
    is_live,         \* main's is_live
    stdout,          \* the lines printed
    error            \* "" or the kind of error that ended the run

vars == <<pc, sheet_key, calendar_id_arg, lookback_minutes, config_reads,
          calendar_id, cred_lookups, now, time_min, time_max, page_token, resp,
          idx, ev, ev_now, requests, responses, evaluated, is_live, stdout, error>>

argVars == <<sheet_key, calendar_id_arg, lookback_minutes>>
loopVars == <<now, time_min, time_max, page_token, resp, idx>>
evalVars == <<ev, ev_now, evaluated>>
netVars == <<requests, responses>>

\* RECURSIVE helpers over the responses
RECURSIVE Flatten(_)
Flatten(rs) ==
    IF rs = <<>> THEN <<>>
    ELSE Flatten(SubSeq(rs, 1, Len(rs) - 1)) \o Get(rs[Len(rs)], "items", <<>>)

\* -------------------------------------------------------------------- Init
Unset ==
    /\ sheet_key = None
    /\ calendar_id_arg = None
    /\ lookback_minutes = DefaultLookback
    /\ config_reads = <<>>
    /\ calendar_id = None
    /\ cred_lookups = 0
    /\ time_min = None
    /\ time_max = None
    /\ page_token = None
    /\ resp = EmptyDict
    /\ idx = 0
    /\ ev_now = FALSE
    /\ requests = <<>>
    /\ responses = <<>>
    /\ evaluated = <<>>
    /\ is_live = FALSE
    /\ stdout = <<>>
    /\ error = ""

\* the script is started
InitMain ==
    /\ pc = "main"
    /\ now = [wall |-> 0, utcoffset |-> 0]
    /\ ev = EmptyDict
    /\ Unset

\* event_is_now is called on one event
InitEventIsNow ==
    /\ pc = "event_is_now"
    /\ now \in Nows
    /\ ev \in Events
    /\ Unset

Init == InitMain \/ InitEventIsNow

\* ----------------------------------------------------------------- actions
Raise(kind) ==
    /\ pc' = "error"
    /\ error' = kind

\* main, lines 102-107: parser.parse_args()
ParseArgs ==
    /\ pc = "main"
    /\ \E s \in SheetInputs, c \in CalendarIdInputs, l \in LookbackInputs :
        IF s # None /\ s \notin SheetChoices
        THEN /\ Raise("argparse")
             /\ UNCHANGED argVars
        ELSE /\ sheet_key' = s
             /\ calendar_id_arg' = c
             /\ lookback_minutes' = l
             /\ pc' = "resolve"
             /\ UNCHANGED error
    /\ UNCHANGED <<config_reads, calendar_id, cred_lookups, loopVars, evalVars,
                   netVars, is_live, stdout>>

\* main, line 109: calendar_id = resolve_calendar_id(...)
Resolve ==
    /\ pc = "resolve"
    /\ \E file \in ConfigFiles :
        LET r == resolve_calendar_id(sheet_key, calendar_id_arg, file)
        IN  /\ config_reads' = IF r.read THEN Append(config_reads, file) ELSE config_reads
            /\ IF r.ok
               THEN /\ calendar_id' = r.value
                    /\ pc' = "check_is_live"
                    /\ UNCHANGED error
               ELSE /\ Raise(r.err)
                    /\ UNCHANGED calendar_id
    /\ UNCHANGED <<argVars, cred_lookups, loopVars, evalVars, netVars, is_live, stdout>>

\* check_is_live, lines 67-74: credentials, client, now, the window, page_token
StartCheck ==
    /\ pc = "check_is_live"
    /\ cred_lookups' = cred_lookups + 1
    /\ \E creds_ok \in BOOLEAN :
        IF ~creds_ok
        THEN /\ Raise("auth")
             /\ UNCHANGED loopVars
        ELSE \E t \in Times :
             LET n == [wall |-> t, utcoffset |-> 0]
             IN  /\ now' = n
                 /\ time_min' = isoformat(plus_minutes(n, -lookback_minutes))
                 /\ time_max' = isoformat(plus_minutes(n, LeadMinutes))
                 /\ page_token' = None
                 /\ pc' = "list"
                 /\ UNCHANGED <<resp, idx, error>>
    /\ UNCHANGED <<argVars, config_reads, calendar_id, evalVars, netVars, is_live, stdout>>

\* variant: the continuation token is not passed on
ListRequest_no_token ==
    [calendarId |-> calendar_id, timeMin |-> time_min, timeMax |-> time_max,
     singleEvents |-> TRUE, orderBy |-> "startTime", maxResults |-> MaxResults,
     pageToken |-> None]

\* the request of lines 76-87
ListRequest ==
    [calendarId |-> calendar_id, timeMin |-> time_min, timeMax |-> time_max,
     singleEvents |-> TRUE, orderBy |-> "startTime", maxResults |-> MaxResults,
     pageToken |-> page_token]

\* the continuation token the service hands out with its k-th response
TokenAfter(k) == "page" \o ToString(k + 1)

\* the responses the service can give to its next request
ServiceResponses ==
    LET k == Len(responses) + 1
        room == MaxEvents - Len(Flatten(responses))
        tokens == {None, ""} \cup (IF k < MaxPages THEN {TokenAfter(k)} ELSE {})
        bodies == {EmptyDict} \cup {[items |-> s] : s \in SeqsUpTo(PageEvents, room)}
    IN  {IF tok = None THEN b ELSE [x \in DOMAIN b \cup {"nextPageToken"} |->
                                      IF x = "nextPageToken" THEN tok ELSE b[x]]
         : b \in bodies, tok \in tokens}

\* variant: a failed request is taken for an empty last page
ListExecute_swallow ==
    /\ pc = "list"
    /\ requests' = Append(requests, ListRequest)
    /\ \E failed \in BOOLEAN :
        IF failed
        THEN /\ resp' = EmptyDict
             /\ idx' = 0
             /\ pc' = "for"
             /\ UNCHANGED <<responses, error>>
        ELSE \E r \in ServiceResponses :
             /\ resp' = r
             /\ responses' = Append(responses, r)
             /\ idx' = 0
             /\ pc' = "for"
             /\ UNCHANGED error
    /\ UNCHANGED <<argVars, config_reads, calendar_id, cred_lookups, now, time_min,
                   time_max, page_token, evalVars, is_live, stdout>>

\* check_is_live, lines 76-88: service.events().list(...).execute()
ListExecute ==
    /\ pc = "list"
    /\ requests' = Append(requests, ListRequest)
    /\ \E failed \in BOOLEAN :
        IF failed
        THEN /\ Raise("fetch")
             /\ UNCHANGED <<resp, idx, responses>>
        ELSE \E r \in ServiceResponses :
             /\ resp' = r
             /\ responses' = Append(responses, r)
             /\ idx' = 0
             /\ pc' = "for"
             /\ UNCHANGED error
    /\ UNCHANGED <<argVars, config_reads, calendar_id, cred_lookups, now, time_min,
                   time_max, page_token, evalVars, is_live, stdout>>

\* variant: a live event is noted but the loop goes on
ForEv_no_return ==
    /\ pc = "for"
    /\ idx < Len(Get(resp, "items", <<>>))
    /\ LET e == Get(resp, "items", <<>>)[idx + 1]
           r == event_is_now(e, now)
       IN  /\ ev' = e
           /\ ev_now' = r
           /\ evaluated' = Append(evaluated, e)
           /\ is_live' = (is_live \/ r)
           /\ idx' = idx + 1
           /\ UNCHANGED pc
    /\ UNCHANGED <<argVars, config_reads, calendar_id, cred_lookups, now, time_min,
                   time_max, page_token, resp, netVars, stdout, error>>

\* check_is_live, lines 90-92: one iteration of the for loop
ForEv ==
    /\ pc = "for"
    /\ idx < Len(Get(resp, "items", <<>>))
    /\ LET e == Get(resp, "items", <<>>)[idx + 1]
           r == event_is_now(e, now)
       IN  /\ ev' = e
           /\ ev_now' = r
           /\ evaluated' = Append(evaluated, e)
           /\ IF r
              THEN /\ is_live' = TRUE
                   /\ pc' = "print"
                   /\ UNCHANGED idx
              ELSE /\ idx' = idx + 1
                   /\ UNCHANGED <<is_live, pc>>
    /\ UNCHANGED <<argVars, config_reads, calendar_id, cred_lookups, now, time_min,
                   time_max, page_token, resp, netVars, stdout, error>>

\* variant: the loop ends after the first page whatever its token
EndPage_first_page_only ==
    /\ pc = "for"
    /\ idx = Len(Get(resp, "items", <<>>))
    /\ page_token' = Get(resp, "nextPageToken", None)
    /\ is_live' = FALSE
    /\ pc' = "print"
    /\ UNCHANGED <<argVars, config_reads, calendar_id, cred_lookups, now, time_min,
                   time_max, resp, idx, evalVars, netVars, stdout, error>>

\* check_is_live, lines 94-98: the for loop is exhausted
EndPage ==
    /\ pc = "for"
    /\ idx = Len(Get(resp, "items", <<>>))
    /\ page_token' = Get(resp, "nextPageToken", None)
    /\ IF ~Truthy(page_token')
       THEN /\ is_live' = FALSE
            /\ pc' = "print"
       ELSE /\ pc' = "list"
            /\ UNCHANGED is_live
    /\ UNCHANGED <<argVars, config_reads, calendar_id, cred_lookups, now, time_min,
                   time_max, resp, idx, evalVars, netVars, stdout, error>>

\* variant: the two status words are exchanged
WriteStatus_swapped ==
    /\ pc = "print"
    /\ stdout' = Append(stdout, IF is_live THEN "is off" ELSE "is live")
    /\ pc' = "done"
    /\ UNCHANGED <<argVars, config_reads, calendar_id, cred_lookups, loopVars,
                   evalVars, netVars, is_live, error>>

\* main, line 111
WriteStatus ==
    /\ pc = "print"
    /\ stdout' = Append(stdout, IF is_live THEN "is live" ELSE "is off")
    /\ pc' = "done"
    /\ UNCHANGED <<argVars, config_reads, calendar_id, cred_lookups, loopVars,
                   evalVars, netVars, is_live, error>>

\* a direct call of event_is_now(ev, now)
CallEventIsNow ==
    /\ pc = "event_is_now"
    /\ ev_now' = event_is_now(ev, now)
    /\ evaluated' = Append(evaluated, ev)
    /\ pc' = "returned"
    /\ UNCHANGED <<argVars, config_reads, calendar_id, cred_lookups, loopVars, ev,
                   netVars, is_live, stdout, error>>

Next ==
    \/ ParseArgs
    \/ Resolve
    \/ StartCheck
    \/ ListExecute
    \/ ForEv
    \/ EndPage
    \/ WriteStatus
    \/ CallEventIsNow

Spec == Init /\ [][Next]_vars


\* ====================================================================
\* Notions the properties are stated with, independent of event_is_now
\* ====================================================================
StartOf(e) == Get(e, "start", EmptyDict)
EndOf(e) == Get(e, "end", EmptyDict)

\* the boundary is an all-day date
IsAllDay(b) == "date" \in DOMAIN b
\* the boundary is a precise timestamp
IsTimestamp(b) == "dateTime" \in DOMAIN b /\ ~IsAllDay(b)

\* start and end are both precise timestamps
Timestamped(e) == IsTimestamp(StartOf(e)) /\ IsTimestamp(EndOf(e))

\* the absolute instant (UTC minutes) of a timestamp string / of a datetime
InstantOf(s) == s[1] - s[2]
InstantOfNow(n) == n.wall - n.utcoffset

\* start <= now < end
Contains(e, n) ==
    /\ InstantOf(StartOf(e)["dateTime"]) <= InstantOfNow(n)
    /\ InstantOfNow(n) < InstantOf(EndOf(e)["dateTime"])

LiveNow(e, n) == Timestamped(e) /\ Contains(e, n)

\* the events of all pages the service returned, in order
Fetched == Flatten(responses)

\* the service's last response carries no (or an empty) continuation token
ChainComplete ==
    /\ responses # <<>>
    /\ ~Truthy(Get(responses[Len(responses)], "nextPageToken", None))

\* check_is_live has returned
Determined == pc \in {"print", "done"}

\* event_is_now has returned for ev
Evaluated == evaluated # <<>>

\* resolve_calendar_id has returned or raised
Resolved == pc \notin {"main", "resolve", "event_is_now", "returned"} /\ error # "argparse"

\* ------------------------------------------------------------------ C1
\* C1: once check_is_live has returned, its result is true exactly when some
\* event of the pages the service returned is timestamped on both boundaries
\* and has start <= now < end; and when the result is false the chain is
\* complete (the last response has no continuation token) and every event
\* of every page was evaluated.
C1_LiveIffSomeEvent ==
    Determined =>
        LET chain == Fetched
        IN  /\ is_live <=> (\E i \in 1..Len(chain) : LiveNow(chain[i], now))
            /\ ~is_live => ChainComplete /\ evaluated = chain

C1_Witness ==
    /\ pc = "done"
    /\ ~is_live
    /\ Len(responses) >= 2
    /\ Len(evaluated) >= 2
    /\ Len(Get(responses[2], "items", <<>>)) >= 1

\* ------------------------------------------------------------------ C2
\* C2: for an event whose start and end are both precise timestamps,
\* event_is_now returns true exactly when start <= now and now < end.
C2_HalfOpen ==
    Evaluated /\ Timestamped(ev) => (ev_now <=> Contains(ev, now))

\* an event that ends exactly at now was evaluated as not live
C2_Witness ==
    /\ pc = "returned"
    /\ Timestamped(ev)
    /\ InstantOf(StartOf(ev)["dateTime"]) < InstantOfNow(now)
    /\ InstantOf(EndOf(ev)["dateTime"]) = InstantOfNow(now)
    /\ ev_now = FALSE

\* ------------------------------------------------------------------ C3
\* C3: an event with an all-day date on either boundary, or without a precise
\* timestamp on either boundary, is never evaluated as live; a run whose
\* fetched events are all of this kind and that completes prints "is off".
C3_AllDayNeverLive ==
    /\ Evaluated /\ ~Timestamped(ev) => ev_now = FALSE
    /\ pc = "done" =>
          LET chain == Fetched
          IN  (\A i \in 1..Len(chain) : ~Timestamped(chain[i])) => stdout = <<"is off">>

\* an event whose start carries a date and whose timestamps contain now
C3_Witness ==
    /\ pc = "returned"
    /\ IsAllDay(StartOf(ev))
    /\ "dateTime" \in DOMAIN StartOf(ev)
    /\ IsTimestamp(EndOf(ev))
    /\ Contains(ev, now)
    /\ ev_now = FALSE

\* ------------------------------------------------------------------ C4
\* C4: when check_is_live found a live event, the number of list requests
\* made is the index of the first page holding a live event, and the events
\* evaluated are exactly those up to and including the first live one.
\* the index in chain of the first event that is live at n
FirstLive(chain, n) ==
    CHOOSE i \in 1..Len(chain) :
        /\ LiveNow(chain[i], n)
        /\ \A j \in 1..(i - 1) : ~LiveNow(chain[j], n)

\* the index of the page of rs that holds the i-th event of Flatten(rs)
PageOf(rs, i) ==
    CHOOSE k \in 1..Len(rs) :
        /\ Len(Flatten(SubSeq(rs, 1, k))) >= i
        /\ Len(Flatten(SubSeq(rs, 1, k - 1))) < i

C4_ShortCircuit ==
    is_live =>
        LET chain == Fetched
        IN  /\ \E i \in 1..Len(chain) : LiveNow(chain[i], now)
            /\ LET first == FirstLive(chain, now)
                    page == PageOf(responses, first)
                IN  /\ Len(requests) = page
                    /\ Len(responses) = page
                    /\ evaluated = SubSeq(chain, 1, first)

\* a live event on the second page, followed by an event that was not evaluated
C4_Witness ==
    /\ pc = "done"
    /\ is_live
    /\ Len(requests) = 2
    /\ Len(evaluated) < Len(Fetched)

\* ------------------------------------------------------------------ C5
\* C5: when the resolver cannot produce a non-empty calendar identifier (no
\* identifier and no key, the config file cannot be loaded, the key is not
\* in "sheets", or its record has no non-empty calendarId), the run ends in
\* an error with no credential lookup, no list request and no status line;
\* and nothing of these happens without a non-empty identifier.
NoIdentifier ==
    /\ ~Truthy(calendar_id_arg)
    /\ \/ ~Truthy(sheet_key)
       \/ /\ config_reads # <<>>
          /\ LET f == config_reads[1]
             IN  \/ ~f.readable
                 \/ "sheets" \notin DOMAIN f.json
                 \/ sheet_key \notin DOMAIN f.json["sheets"]
                 \/ "calendarId" \notin DOMAIN f.json["sheets"][sheet_key]
                 \/ f.json["sheets"][sheet_key]["calendarId"] = ""

C5_ResolverFailsFirst ==
    /\ Resolved /\ NoIdentifier =>
          /\ pc = "error"
          /\ cred_lookups = 0
          /\ requests = <<>>
          /\ stdout = <<>>
    /\ cred_lookups > 0 \/ requests # <<>> \/ stdout # <<>> => Truthy(calendar_id)

\* the key's record holds an empty calendarId
C5_Witness ==
    /\ pc = "error"
    /\ sheet_key = "A"
    /\ config_reads # <<>>
    /\ config_reads[1].readable
    /\ HasTruthy(Get(config_reads[1].json, "sheets", EmptyDict), "A")
    /\ cred_lookups = 0

\* ------------------------------------------------------------------ C6
\* C6: with a (non-empty) explicit identifier, resolve_calendar_id returns
\* that identifier whether or not a key is given, the config file is not
\* read, and the run does not end in a resolver error.
C6_ExplicitIdWins ==
    Resolved /\ Truthy(calendar_id_arg) =>
        /\ calendar_id = calendar_id_arg
        /\ config_reads = <<>>
        /\ error \notin {"usage", "config", "notfound"}

\* both an identifier and a key were given
C6_Witness ==
    /\ pc = "check_is_live"
    /\ calendar_id_arg = "cal123"
    /\ sheet_key = "A"
    /\ calendar_id = "cal123"

\* ------------------------------------------------------------------ C7
\* C7: a list request without a response is a failed one: it is the last
\* request of the run, the run has ended in the fetch error and nothing was
\* printed; and a run that ended in a fetch error is in this situation.
C7_FetchErrorAborts ==
    /\ Len(requests) # Len(responses) =>
          /\ Len(requests) = Len(responses) + 1
          /\ pc = "error"
          /\ error = "fetch"
          /\ stdout = <<>>
    /\ error = "fetch" => Len(requests) = Len(responses) + 1

\* the second request failed after a first page whose events were not live
C7_Witness ==
    /\ error = "fetch"
    /\ Len(requests) = 2
    /\ Len(evaluated) >= 1
    /\ stdout = <<>>

\* ------------------------------------------------------------------ C8
\* C8: a run that completed has printed exactly one line, "is live" when
\* the liveness result is true (some fetched event contains now) and
\* "is off" when it is false; before that, and in a run that ended in an
\* error, nothing is printed.
C8_OneStatusLine ==
    /\ pc = "done" =>
          LET chain == Fetched
          IN  /\ Len(stdout) = 1
              /\ stdout[1] = "is live" <=> is_live
              /\ stdout[1] = "is off" <=> ~is_live
              /\ stdout[1] = "is live" <=> (\E i \in 1..Len(chain) : LiveNow(chain[i], now))
    /\ pc # "done" => stdout = <<>>

\* the only event ends exactly at now: "is off"
C8_Witness ==
    /\ pc = "done"
    /\ stdout = <<"is off">>
    /\ Len(Fetched) = 1
    /\ Timestamped(Fetched[1])
    /\ InstantOf(EndOf(Fetched[1])["dateTime"]) = InstantOfNow(now)

\* ------------------------------------------------------------------ C9
\* C9: for a timestamped event, writing start, end and now in any other
\* offsets while keeping their absolute instants gives the same
\* event_is_now result.
InOffset(s, o) == <<InstantOf(s) + o, o>>
NowInOffset(n, o) == [wall |-> InstantOfNow(n) + o, utcoffset |-> o]
Rewritten(e, o1, o2) ==
    [start |-> [dateTime |-> InOffset(e["start"]["dateTime"], o1)],
     end |-> [dateTime |-> InOffset(e["end"]["dateTime"], o2)]]

C9_OffsetInvariance ==
    pc = "returned" /\ Timestamped(ev) =>
        \A o1 \in Offsets, o2 \in Offsets, o3 \in Offsets :
            event_is_now(Rewritten(ev, o1, o2), NowInOffset(now, o3)) = ev_now

\* a live event written in UTC+2 and UTC-5, now in UTC
C9_Witness ==
    /\ pc = "returned"
    /\ Timestamped(ev)
    /\ StartOf(ev)["dateTime"][2] = 120
    /\ EndOf(ev)["dateTime"][2] = -300
    /\ now.utcoffset = 0
    /\ ev_now = TRUE

\* ----------------------------------------------------------------- C10
\* C10: the first request carries no token and every later one the token of
\* the preceding response; at most one request is outstanding; a request
\* follows a response only when all events up to that response were
\* evaluated as not live and the response carried a non-empty token; all
\* requests of a run carry the same calendar identifier and the window
\* [now - lookback, now + 1 minute] of the run's single now.
C10_SequentialChained ==
    /\ Len(requests) \in {Len(responses), Len(responses) + 1}
    /\ \A k \in 1..Len(requests) :
          /\ requests[k].pageToken =
                IF k = 1 THEN None ELSE Get(responses[k - 1], "nextPageToken", None)
          /\ requests[k].calendarId = calendar_id
          /\ requests[k].timeMin = <<now.wall - lookback_minutes, 0>>
          /\ requests[k].timeMax = <<now.wall + LeadMinutes, 0>>
          /\ k >= 2 =>
                LET before == Flatten(SubSeq(responses, 1, k - 1))
                IN  /\ Len(evaluated) >= Len(before)
                    /\ SubSeq(evaluated, 1, Len(before)) = before
                    /\ \A i \in 1..Len(before) : ~LiveNow(before[i], now)
                    /\ Truthy(requests[k].pageToken)
    /\ \A k \in 1..Len(responses) :
          ~Truthy(Get(responses[k], "nextPageToken", None)) => Len(requests) = k

\* a second request carrying the first response's token
C10_Witness ==
    /\ Len(requests) = 2
    /\ Len(responses) = 2
    /\ requests[2].pageToken = "page2"
    /\ Len(Get(responses[1], "items", <<>>)) >= 1

====
